---- MODULE Spec2Model ----
(***************************************************************************)
(* Rules engine (src/src/lib/chess.ts) and search engine                   *)
(* (src/src/lib/chessAI.ts) of chess-master, with the game loop of the     *)
(* board component that drives them.                                       *)
(*                                                                         *)
(* A board is a function row -> col -> piece over 0..7 x 0..7, a position  *)
(* a record [row, col], move lists are sequences in generation order.      *)
(* The JavaScript value null (an empty square) and undefined (an absent    *)
(* optional argument, an out-of-range column) are the records null and     *)
(* NoMove below, so that every square holds a record.                      *)
(***************************************************************************)
EXTENDS Integers, Sequences, FiniteSets, TLC

\* ------------------------------------------------------------------ data

null == [type |-> "null", color |-> "null"]

Piece(type, color) == [type |-> type, color |-> color]

Pos(row, col) == [row |-> row, col |-> col]

PieceColor == {"white", "black"}

PieceType == {"pawn", "knight", "bishop", "rook", "queen", "king"}

Difficulty == {"easy", "medium", "hard"}

Rows == 0..7

Cols == 0..7

Squares == {Pos(r, c) : r \in Rows, c \in Cols}

BackRank == <<"rook", "knight", "bishop", "queen", "king", "bishop", "knight", "rook">>

INITIAL_BOARD ==
  [row \in Rows |-> [col \in Cols |->
     CASE row = 0 -> Piece(BackRank[col + 1], "black")
       [] row = 1 -> Piece("pawn", "black")
       [] row = 6 -> Piece("pawn", "white")
       [] row = 7 -> Piece(BackRank[col + 1], "white")
       [] OTHER -> null]]

\* A move as the callers build it: from, to and the piece moved.
Move(from, to, piece) == [from |-> from, to |-> to, piece |-> piece]

\* The absent optional argument lastMove (undefined).
NoMove == Move(Pos(-1, -1), Pos(-1, -1), null)

Opponent(color) == IF color = "white" THEN "black" ELSE "white"

\* ------------------------------------------------------------- sequences

\* seqs[lo] \o ... \o seqs[hi], by halves.
RECURSIVE ConcatRange(_, _, _)
ConcatRange(seqs, lo, hi) ==
  IF lo > hi THEN <<>>
  ELSE IF lo = hi THEN seqs[lo]
  ELSE LET mid == (lo + hi) \div 2
       IN ConcatRange(seqs, lo, mid) \o ConcatRange(seqs, mid + 1, hi)

\* The concatenation of a sequence of sequences, in order.
Concat(seqs) == ConcatRange(seqs, 1, Len(seqs))

InSeq(x, seq) == \E i \in 1..Len(seq) : seq[i] = x

\* --------------------------------------------------------- rules engine

isValidPosition(pos) ==
  pos.row >= 0 /\ pos.row < 8 /\ pos.col >= 0 /\ pos.col < 8

\* The pawn without its double advance and its captures.
getPawnMovesSingleStep(board, from, color, lastMove) ==
  LET forward == Pos(from.row + (IF color = "white" THEN -1 ELSE 1), from.col)
  IN IF isValidPosition(forward) /\ board[forward.row][forward.col] = null
     THEN <<forward>> ELSE <<>>

\* The pawn capturing en passant whatever the length of the last advance.
getPawnMovesAnyAdvance(board, from, color, lastMove) ==
  LET direction == IF color = "white" THEN -1 ELSE 1
      startRow == IF color = "white" THEN 6 ELSE 1
      forward == Pos(from.row + direction, from.col)
      doubleForward == Pos(from.row + 2 * direction, from.col)
      forwardMoves ==
        IF isValidPosition(forward) /\ board[forward.row][forward.col] = null
        THEN <<forward>> \o
             (IF from.row = startRow /\ board[doubleForward.row][doubleForward.col] = null
              THEN <<doubleForward>> ELSE <<>>)
        ELSE <<>>
      captureMoves(colOffset) ==
        LET capture == Pos(from.row + direction, from.col + colOffset)
        IN IF isValidPosition(capture)
           THEN LET target == board[capture.row][capture.col]
                IN (IF target # null /\ target.color # color THEN <<capture>> ELSE <<>>)
                   \o
                   (IF /\ lastMove # NoMove
                       /\ lastMove.piece.type = "pawn"
                       /\ lastMove.to.row = from.row
                       /\ lastMove.to.col = capture.col
                    THEN <<capture>> ELSE <<>>)
           ELSE <<>>
  IN forwardMoves \o captureMoves(-1) \o captureMoves(1)

getPawnMoves(board, from, color, lastMove) ==
  LET direction == IF color = "white" THEN -1 ELSE 1
      startRow == IF color = "white" THEN 6 ELSE 1
      forward == Pos(from.row + direction, from.col)
      forwardFree == isValidPosition(forward) /\ board[forward.row][forward.col] = null
      doubleForward == Pos(from.row + 2 * direction, from.col)
      forwardMoves ==
        IF forwardFree
        THEN <<forward>> \o
             (IF from.row = startRow /\ board[doubleForward.row][doubleForward.col] = null
              THEN <<doubleForward>> ELSE <<>>)
        ELSE <<>>
      captureMoves(colOffset) ==
        LET capture == Pos(from.row + direction, from.col + colOffset)
        IN IF isValidPosition(capture)
           THEN LET target == board[capture.row][capture.col]
                IN (IF target # null /\ target.color # color THEN <<capture>> ELSE <<>>)
                   \o
                   (IF /\ lastMove # NoMove
                       /\ lastMove.piece.type = "pawn"
                       /\ (lastMove.from.row - lastMove.to.row = 2
                           \/ lastMove.to.row - lastMove.from.row = 2)
                       /\ lastMove.to.row = from.row
                       /\ lastMove.to.col = capture.col
                    THEN <<capture>> ELSE <<>>)
           ELSE <<>>
  IN forwardMoves \o captureMoves(-1) \o captureMoves(1)

\* The loop shared by getKnightMoves and getKingMoves over their offsets.
OffsetMoves(board, from, color, offsets) ==
  SelectSeq([i \in 1..Len(offsets) |-> Pos(from.row + offsets[i][1], from.col + offsets[i][2])],
            LAMBDA to : /\ isValidPosition(to)
                        /\ (board[to.row][to.col] = null \/ board[to.row][to.col].color # color))

KnightOffsets ==
  << <<-2, -1>>, <<-2, 1>>, <<-1, -2>>, <<-1, 2>>,
     <<1, -2>>, <<1, 2>>, <<2, -1>>, <<2, 1>> >>

\* The knight with only the row of its destinations checked: a column off the
\* board reads undefined, which passes for an empty square.
getKnightMovesRowChecked(board, from, color) ==
  SelectSeq([i \in 1..Len(KnightOffsets) |->
               Pos(from.row + KnightOffsets[i][1], from.col + KnightOffsets[i][2])],
            LAMBDA to : /\ to.row >= 0 /\ to.row < 8
                        /\ (\/ to.col < 0 \/ to.col >= 8
                            \/ board[to.row][to.col] = null
                            \/ board[to.row][to.col].color # color))

getKnightMoves(board, from, color) == OffsetMoves(board, from, color, KnightOffsets)

KingOffsets ==
  << <<-1, -1>>, <<-1, 0>>, <<-1, 1>>,
     <<0, -1>>, <<0, 1>>,
     <<1, -1>>, <<1, 0>>, <<1, 1>> >>

getKingMoves(board, from, color) == OffsetMoves(board, from, color, KingOffsets)

\* One ray of getDirectionalMoves: the while loop from (row, col) on.
RECURSIVE Ray(_, _, _, _, _, _)
Ray(board, row, col, rowDir, colDir, color) ==
  IF ~isValidPosition(Pos(row, col)) THEN <<>>
  ELSE LET target == board[row][col]
       IN IF target = null
          THEN <<Pos(row, col)>> \o Ray(board, row + rowDir, col + colDir, rowDir, colDir, color)
          ELSE IF target.color # color THEN <<Pos(row, col)>> ELSE <<>>

getDirectionalMoves(board, from, color, directions) ==
  Concat([i \in 1..Len(directions) |->
            Ray(board, from.row + directions[i][1], from.col + directions[i][2],
                directions[i][1], directions[i][2], color)])

BishopDirections == << <<-1, -1>>, <<-1, 1>>, <<1, -1>>, <<1, 1>> >>

getBishopMoves(board, from, color) ==
  getDirectionalMoves(board, from, color, BishopDirections)

RookDirections == << <<-1, 0>>, <<1, 0>>, <<0, -1>>, <<0, 1>> >>

getRookMoves(board, from, color) ==
  getDirectionalMoves(board, from, color, RookDirections)

QueenDirections ==
  << <<-1, -1>>, <<-1, 0>>, <<-1, 1>>, <<0, -1>>, <<0, 1>>, <<1, -1>>, <<1, 0>>, <<1, 1>> >>

\* The queen moving along rows and columns only.
getQueenMovesOrthogonal(board, from, color) ==
  getDirectionalMoves(board, from, color, RookDirections)

getQueenMoves(board, from, color) ==
  getDirectionalMoves(board, from, color, QueenDirections)

\* The switch on piece.type shared by getValidMoves and
\* getValidMovesWithoutCheckTest.
PieceMoves(board, from, piece, lastMove) ==
  CASE piece.type = "pawn" -> getPawnMoves(board, from, piece.color, lastMove)
    [] piece.type = "knight" -> getKnightMoves(board, from, piece.color)
    [] piece.type = "bishop" -> getBishopMoves(board, from, piece.color)
    [] piece.type = "rook" -> getRookMoves(board, from, piece.color)
    [] piece.type = "queen" -> getQueenMoves(board, from, piece.color)
    [] piece.type = "king" -> getKingMoves(board, from, piece.color)
    [] OTHER -> <<>>

getValidMovesWithoutCheckTest(board, from) ==
  LET piece == board[from.row][from.col]
  IN IF piece = null THEN <<>> ELSE PieceMoves(board, from, piece, NoMove)

\* The first king of the color in row-major order, or NoPos (null).
NoPos == Pos(-1, -1)

findKing(board, color) ==
  LET kings == {i \in 0..63 : board[i \div 8][i % 8] = Piece("king", color)}
  IN IF kings = {} THEN NoPos
     ELSE LET first == CHOOSE i \in kings : \A j \in kings : i <= j
          IN Pos(first \div 8, first % 8)

\* isInCheck reporting a color without a king as in check.
isInCheckWhenKingless(board, color) ==
  LET kingPos == findKing(board, color)
  IN IF kingPos = NoPos THEN TRUE
     ELSE \E row \in Rows, col \in Cols :
            /\ board[row][col] # null
            /\ board[row][col].color = Opponent(color)
            /\ InSeq(kingPos, getValidMovesWithoutCheckTest(board, Pos(row, col)))

isInCheck(board, color) ==
  LET kingPos == findKing(board, color)
      opponentColor == Opponent(color)
  IN IF kingPos = NoPos THEN FALSE
     ELSE \E row \in Rows, col \in Cols :
            /\ board[row][col] # null
            /\ board[row][col].color = opponentColor
            /\ InSeq(kingPos, getValidMovesWithoutCheckTest(board, Pos(row, col)))

\* ---------------------------------------------------- boards as objects
\* A board object is an array of 8 row objects.  Row objects live in a memory
\* (row id -> row); a board reference is the 8 ids of its rows.  The board a
\* caller passes in occupies ids 0..7.

InputRef == [row \in Rows |-> row]

Store(board) == [id \in 0..7 |-> board[id]]

Load(mem, ref) == [row \in Rows |-> mem[ref[row]]]

\* board[pos.row][pos.col] = piece
Write(mem, ref, pos, piece) == [mem EXCEPT ![ref[pos.row]][pos.col] = piece]

\* A copy that shares the row objects of its argument (board.slice()).
copyBoardShallow(mem, ref) == [mem |-> mem, ref |-> ref]

\* board.map(row => row.map(...)): 8 new row objects, ids 8..15, each holding
\* what the row it copies holds.
copyBoard(mem, ref) ==
  [mem |-> [id \in 0..15 |-> IF id < 8 THEN mem[id] ELSE mem[ref[id - 8]]],
   ref |-> [row \in Rows |-> 8 + row]]

\* The three statements wouldBeInCheck and makeMove share: copy the board,
\* put the piece of `from` on `to`, empty `from`.  The memory after them and
\* the reference of the new board.
\* The relocation turning a pawn that reaches a back rank into a queen.
RelocatePromoting(board, from, to) ==
  LET testBoard == copyBoard(Store(board), InputRef)
      piece == testBoard.mem[testBoard.ref[from.row]][from.col]
      placed == IF piece.type = "pawn" /\ to.row \in {0, 7}
                THEN Piece("queen", piece.color) ELSE piece
      mem1 == Write(testBoard.mem, testBoard.ref, to, placed)
      mem2 == Write(mem1, testBoard.ref, from, null)
  IN [mem |-> mem2, ref |-> testBoard.ref]

Relocate(board, from, to) ==
  LET testBoard == copyBoard(Store(board), InputRef)
      mem1 == Write(testBoard.mem, testBoard.ref, to,
                    testBoard.mem[testBoard.ref[from.row]][from.col])
      mem2 == Write(mem1, testBoard.ref, from, null)
  IN [mem |-> mem2, ref |-> testBoard.ref]

\* makeMove's return value.
makeMove(board, from, to) ==
  LET newBoard == Relocate(board, from, to)
  IN Load(newBoard.mem, newBoard.ref)

\* The board the caller passed to makeMove or wouldBeInCheck, after the call.
BoardAfterRelocate(board, from, to) == Load(Relocate(board, from, to).mem, InputRef)

wouldBeInCheck(board, from, to, color) == isInCheck(makeMove(board, from, to), color)

\* board[from.row][from.col] at line 92 raises a TypeError when board[from.row]
\* is undefined; a column outside the row yields undefined, which is falsy.
getValidMovesThrows(board, from) == from.row \notin Rows

\* The array `moves` of getValidMoves before its filter: empty for an empty
\* square, else what the generator of the piece's type returns.
GeneratedMoves(board, from, lastMove) ==
  LET piece == IF from.col \in Cols THEN board[from.row][from.col] ELSE null
  IN IF piece = null THEN <<>> ELSE PieceMoves(board, from, piece, lastMove)

\* getValidMoves returning the generated moves unfiltered.
getValidMovesUnfiltered(board, from, lastMove) == GeneratedMoves(board, from, lastMove)

getValidMoves(board, from, lastMove) ==
  LET piece == IF from.col \in Cols THEN board[from.row][from.col] ELSE null
  IN IF piece = null THEN <<>>
     ELSE SelectSeq(GeneratedMoves(board, from, lastMove),
                    LAMBDA to : ~wouldBeInCheck(board, from, to, piece.color))

\* The scan isCheckmate and isStalemate share: no piece of the color has a
\* move.
NoValidMoves(board, color) ==
  \A row \in Rows, col \in Cols :
    (board[row][col] # null /\ board[row][col].color = color)
      => Len(getValidMoves(board, Pos(row, col), NoMove)) = 0

isCheckmate(board, color) ==
  IF ~isInCheck(board, color) THEN FALSE ELSE NoValidMoves(board, color)

\* isStalemate without its test of isInCheck.
isStalemateWithoutCheckTest(board, color) == NoValidMoves(board, color)

isStalemate(board, color) ==
  IF isInCheck(board, color) THEN FALSE ELSE NoValidMoves(board, color)

\* -------------------------------------------------------- search engine

PIECE_VALUES(type) ==
  CASE type = "pawn" -> 100
    [] type = "knight" -> 320
    [] type = "bishop" -> 330
    [] type = "rook" -> 500
    [] type = "queen" -> 900
    [] type = "king" -> 20000

Abs(x) == IF x < 0 THEN -x ELSE x

Max(x, y) == IF x >= y THEN x ELSE y

Min(x, y) == IF x <= y THEN x ELSE y

\* Math.max(0, 3 - Math.abs(3.5 - row) - Math.abs(3.5 - col)) * 10, computed
\* in halves: |7 - 2 row| + |7 - 2 col| is even, so the result is an integer.
centerBonus(row, col) ==
  (Max(0, 6 - Abs(7 - 2 * row) - Abs(7 - 2 * col)) * 10) \div 2

getPositionBonus(piece, row, col) ==
  IF piece.type = "pawn"
  THEN (IF piece.color = "white" THEN (6 - row) * 10 ELSE row * 10)
  ELSE IF piece.type = "knight" \/ piece.type = "bishop"
       THEN centerBonus(row, col)
       ELSE 0

\* The body of evaluateBoard's loops for the squares lo..hi in row-major
\* order, summed by halves.
RECURSIVE evaluateRange(_, _, _, _)
evaluateRange(board, color, lo, hi) ==
  IF lo = hi
  THEN LET row == lo \div 8
           col == lo % 8
           piece == board[row][col]
       IN IF piece = null THEN 0
          ELSE LET total == PIECE_VALUES(piece.type) + getPositionBonus(piece, row, col)
               IN IF piece.color = color THEN total ELSE -total
  ELSE LET mid == (lo + hi) \div 2
       IN evaluateRange(board, color, lo, mid) + evaluateRange(board, color, mid + 1, hi)

evaluateBoard(board, color) == evaluateRange(board, color, 0, 63)

\* getAllPossibleMoves listing the generated moves unfiltered.
getAllPossibleMovesUnfiltered(board, color) ==
  Concat([i \in 1..64 |->
    LET row == (i - 1) \div 8
        col == (i - 1) % 8
        piece == board[row][col]
    IN IF piece # null /\ piece.color = color
       THEN LET validMoves == GeneratedMoves(board, Pos(row, col), NoMove)
            IN [k \in 1..Len(validMoves) |-> [from |-> Pos(row, col), to |-> validMoves[k]]]
       ELSE <<>>])

getAllPossibleMoves(board, color) ==
  Concat([i \in 1..64 |->
    LET row == (i - 1) \div 8
        col == (i - 1) % 8
        piece == board[row][col]
    IN IF piece # null /\ piece.color = color
       THEN LET validMoves == getValidMoves(board, Pos(row, col), NoMove)
            IN [k \in 1..Len(validMoves) |-> [from |-> Pos(row, col), to |-> validMoves[k]]]
       ELSE <<>>])

\* Infinity, above every score the search produces.
Infinity == 1000000000

\* The score of a checkmate.
MateScore == 999999

\* The cutoff test of both loops of minimax.
PruneWhenAlphaBelowBeta(alpha, beta) == alpha <= beta

Prune(alpha, beta) == beta <= alpha

RECURSIVE minimax(_, _, _, _, _, _)
RECURSIVE MaxLoop(_, _, _, _, _, _, _, _)
RECURSIVE MinLoop(_, _, _, _, _, _, _, _)

\* The for loop of the maximizing branch from moves[i] on.
MaxLoop(board, moves, i, depth, alpha, beta, maxEval, color) ==
  IF i > Len(moves) THEN maxEval
  ELSE LET newBoard == makeMove(board, moves[i].from, moves[i].to)
           evaluation == minimax(newBoard, depth - 1, alpha, beta, FALSE, color)
           newMax == Max(maxEval, evaluation)
           newAlpha == Max(alpha, evaluation)
       IN IF Prune(newAlpha, beta) THEN newMax
          ELSE MaxLoop(board, moves, i + 1, depth, newAlpha, beta, newMax, color)

\* The for loop of the minimizing branch from moves[i] on.
MinLoop(board, moves, i, depth, alpha, beta, minEval, color) ==
  IF i > Len(moves) THEN minEval
  ELSE LET newBoard == makeMove(board, moves[i].from, moves[i].to)
           evaluation == minimax(newBoard, depth - 1, alpha, beta, TRUE, color)
           newMin == Min(minEval, evaluation)
           newBeta == Min(beta, evaluation)
       IN IF Prune(alpha, newBeta) THEN newMin
          ELSE MinLoop(board, moves, i + 1, depth, alpha, newBeta, newMin, color)

\* minimax testing checkmate before it tests the depth.
minimaxTestingMateAtLeaf(board, depth, alpha, beta, maximizing, color) ==
  LET currentColor == IF maximizing THEN color ELSE Opponent(color)
  IN IF isCheckmate(board, currentColor)
     THEN (IF maximizing THEN -MateScore ELSE MateScore)
     ELSE IF depth = 0 THEN evaluateBoard(board, color)
     ELSE LET moves == getAllPossibleMoves(board, currentColor)
          IN IF Len(moves) = 0 THEN 0
             ELSE IF maximizing
                  THEN MaxLoop(board, moves, 1, depth, alpha, beta, -Infinity, color)
                  ELSE MinLoop(board, moves, 1, depth, alpha, beta, Infinity, color)

minimax(board, depth, alpha, beta, maximizing, color) ==
  IF depth = 0 THEN evaluateBoard(board, color)
  ELSE LET currentColor == IF maximizing THEN color ELSE Opponent(color)
       IN IF isCheckmate(board, currentColor)
          THEN (IF maximizing THEN -MateScore ELSE MateScore)
          ELSE LET moves == getAllPossibleMoves(board, currentColor)
               IN IF Len(moves) = 0 THEN 0
                  ELSE IF maximizing
                       THEN MaxLoop(board, moves, 1, depth, alpha, beta, -Infinity, color)
                       ELSE MinLoop(board, moves, 1, depth, alpha, beta, Infinity, color)

\* getBestMove returning null.
NoBest == [from |-> NoPos, to |-> NoPos]

DepthOf(difficulty) ==
  IF difficulty = "easy" THEN 1 ELSE IF difficulty = "medium" THEN 2 ELSE 3

\* The for loop of getBestMove from moves[i] on.
RECURSIVE BestLoop(_, _, _, _, _, _, _)
BestLoop(board, color, depth, moves, i, bestMove, bestValue) ==
  IF i > Len(moves) THEN bestMove
  ELSE LET newBoard == makeMove(board, moves[i].from, moves[i].to)
           value == minimax(newBoard, depth - 1, -Infinity, Infinity, FALSE, color)
       IN IF value > bestValue
          THEN BestLoop(board, color, depth, moves, i + 1, moves[i], value)
          ELSE BestLoop(board, color, depth, moves, i + 1, bestMove, bestValue)

\* Lines 151-164 of getBestMove: the search over a non-empty move list.
SearchBestMove(board, color, depth, moves) ==
  BestLoop(board, color, depth, moves, 1, moves[1], -Infinity)

\* Math.random() is one of the values n / RandDen, n in 0..RandDen-1.
RandDen == 4

RandomValues == 0..(RandDen - 1)

\* n / RandDen < num / den
RandomLess(n, num, den) == n * den < num * RandDen

\* Math.floor(Math.random() * length)
RandomIndex(n, length) == (n * length) \div RandDen

\* The test of line 143 taken whatever the difficulty.
RandomBranchAnyDifficulty(difficulty, n) == RandomLess(n, 1, 2)

\* difficulty === 'easy' && Math.random() < 0.5
RandomBranch(difficulty, n) == difficulty = "easy" /\ RandomLess(n, 1, 2)

\* getBestMove: the set of its outcomes over the values Math.random() can
\* return.  An outcome is the move returned (NoBest for null), the path taken
\* and the number of calls of Math.random() on it.
getBestMove(board, color, difficulty) ==
  LET depth == DepthOf(difficulty)
      moves == getAllPossibleMoves(board, color)
      captures == SelectSeq(moves, LAMBDA move : board[move.to.row][move.to.col] # null)
      \* Math.random() at line 143 is called only when difficulty is easy.
      first == IF difficulty = "easy" THEN 1 ELSE 0
      searched == [move |-> SearchBestMove(board, color, depth, moves),
                   path |-> "search", draws |-> first]
      random(n2, n3) ==
        IF Len(captures) > 0
        THEN IF RandomLess(n2, 7, 10)
             THEN [move |-> captures[RandomIndex(n3, Len(captures)) + 1],
                   path |-> "capture", draws |-> first + 2]
             ELSE [move |-> moves[RandomIndex(n3, Len(moves)) + 1],
                   path |-> "random", draws |-> first + 2]
        ELSE [move |-> moves[RandomIndex(n3, Len(moves)) + 1],
              path |-> "random", draws |-> first + 1]
  IN IF Len(moves) = 0 THEN {[move |-> NoBest, path |-> "null", draws |-> 0]}
     ELSE UNION {IF RandomBranch(difficulty, n1)
                 THEN {random(n2, n3) : n2 \in RandomValues, n3 \in RandomValues}
                 ELSE {searched} : n1 \in RandomValues}

\* ------------------------------------------- the caller's board afterwards
\* What the board object passed to an operation holds when the operation
\* returns: the writes of every call made with that object, in order.

RECURSIVE RelocateAll(_, _, _, _)
RelocateAll(board, from, tos, i) ==
  IF i > Len(tos) THEN board
  ELSE RelocateAll(BoardAfterRelocate(board, from, tos[i]), from, tos, i + 1)

\* getValidMoves: one wouldBeInCheck per generated destination.
BoardAfterGetValidMoves(board, from, lastMove) ==
  RelocateAll(board, from, GeneratedMoves(board, from, lastMove), 1)

\* The scans of isCheckmate, isStalemate and getAllPossibleMoves: getValidMoves
\* for the pieces of the color on the squares i..63.
RECURSIVE BoardAfterScan(_, _, _)
BoardAfterScan(board, color, i) ==
  IF i > 63 THEN board
  ELSE LET piece == board[i \div 8][i % 8]
       IN IF piece # null /\ piece.color = color
          THEN BoardAfterScan(BoardAfterGetValidMoves(board, Pos(i \div 8, i % 8), NoMove),
                              color, i + 1)
          ELSE BoardAfterScan(board, color, i + 1)

RECURSIVE MakeMoveAll(_, _, _)
MakeMoveAll(board, moves, i) ==
  IF i > Len(moves) THEN board
  ELSE MakeMoveAll(BoardAfterRelocate(board, moves[i].from, moves[i].to), moves, i + 1)

\* getBestMove: getAllPossibleMoves, then one makeMove per move of the list;
\* the searches below work on the boards makeMove returned.
BoardAfterGetBestMove(board, color) ==
  LET scanned == BoardAfterScan(board, color, 0)
  IN MakeMoveAll(scanned, getAllPossibleMoves(scanned, color), 1)

\* minimax called with the window getBestMove passes, in which its own loop
\* is never cut off: the scan of isCheckmate once the color is in check, then,
\* unless it is checkmated, getAllPossibleMoves and one makeMove per move.
BoardAfterMinimax(board, depth, maximizing, color) ==
  LET currentColor == IF maximizing THEN color ELSE Opponent(color)
      tested == IF isInCheck(board, currentColor)
                THEN BoardAfterScan(board, currentColor, 0) ELSE board
  IN IF depth = 0 THEN board
     ELSE IF isCheckmate(board, currentColor) THEN tested
     ELSE LET scanned == BoardAfterScan(tested, currentColor, 0)
          IN MakeMoveAll(scanned, getAllPossibleMoves(scanned, currentColor), 1)

VARIABLES board, currentPlayer, lastMove, moveHistory


\* ------------------------------------------------- the operations, called
\* Each operation of the core applied once to a board drawn from a set of
\* positions, the call and what it returned recorded in `call`.

EmptyBoard == [row \in Rows |-> [col \in Cols |-> null]]

\* The board holding the pieces <<row, col, type, color>> of a list.
RECURSIVE PutAll(_, _, _)
PutAll(b, pieces, i) ==
  IF i > Len(pieces) THEN b
  ELSE PutAll([b EXCEPT ![pieces[i][1]][pieces[i][2]] = Piece(pieces[i][3], pieces[i][4])],
              pieces, i + 1)

BoardOf(pieces) == PutAll(EmptyBoard, pieces, 1)

\* Black king a8 mated by the rook h8 and the king b6.
MatedBoard ==
  BoardOf(<< <<0, 0, "king", "black">>, <<2, 1, "king", "white">>, <<0, 7, "rook", "white">> >>)

\* Black king a8 stalemated by the pawn a7 and the king a6.
StalematedBoard ==
  BoardOf(<< <<0, 0, "king", "black">>, <<1, 0, "pawn", "white">>, <<2, 0, "king", "white">> >>)

\* Knight and pawn against pawn, captures within reach.
KnightBoard ==
  BoardOf(<< <<0, 0, "king", "black">>, <<2, 1, "king", "white">>, <<4, 3, "knight", "white">>,
             <<1, 6, "pawn", "black">>, <<6, 2, "pawn", "white">>, <<2, 4, "pawn", "black">> >>)

\* A white pawn one step from the last rank, a black pawn one step from its own.
PromotionBoard ==
  BoardOf(<< <<0, 4, "king", "black">>, <<7, 4, "king", "white">>, <<1, 0, "pawn", "white">>,
             <<6, 7, "pawn", "black">>, <<0, 1, "knight", "black">> >>)

\* White pawn e5 beside the black pawn d5 that has just advanced two rows.
EnPassantBoard ==
  BoardOf(<< <<0, 4, "king", "black">>, <<7, 4, "king", "white">>, <<3, 4, "pawn", "white">>,
             <<3, 3, "pawn", "black">>, <<1, 5, "pawn", "black">> >>)

\* The white bishop e2 pinned to its king by the rook e8.
PinnedBoard ==
  BoardOf(<< <<0, 0, "king", "black">>, <<7, 4, "king", "white">>, <<6, 4, "bishop", "white">>,
             <<0, 4, "rook", "black">> >>)

\* No white king.
KinglessBoard ==
  BoardOf(<< <<0, 4, "king", "black">>, <<4, 4, "knight", "white">>, <<6, 3, "pawn", "white">>,
             <<1, 3, "pawn", "black">> >>)

\* Pawns on their last ranks and on their starting ranks, a knight in the
\* corner.
LastRankBoard ==
  BoardOf(<< <<0, 4, "king", "black">>, <<7, 4, "king", "white">>, <<0, 0, "pawn", "white">>,
             <<7, 7, "pawn", "black">>, <<6, 1, "pawn", "white">>, <<1, 6, "pawn", "black">>,
             <<7, 0, "knight", "black">> >>)

\* The en passant position with the white pawn pinned on its file by the rook
\* e8.
EnPassantPinnedBoard ==
  BoardOf(<< <<0, 0, "king", "black">>, <<7, 4, "king", "white">>, <<3, 4, "pawn", "white">>,
             <<3, 3, "pawn", "black">>, <<0, 4, "rook", "black">> >>)

SearchBoards ==
  {MatedBoard, StalematedBoard, KnightBoard, PromotionBoard, EnPassantBoard, PinnedBoard,
   KinglessBoard, EmptyBoard}

RulesBoards == SearchBoards \cup {INITIAL_BOARD, LastRankBoard, EnPassantPinnedBoard}

\* Positions up to Margin squares off the board, for the position arguments.
Margin == 1

ProbePositions == {Pos(r, c) : r \in (0 - Margin)..(7 + Margin), c \in (0 - Margin)..(7 + Margin)}

\* The lastMove arguments tried on a board: none, and every piece of the board
\* as having just moved one or two rows along its column.
LastMoves(b) ==
  {NoMove} \cup
  {Move(Pos(sq.row + d, sq.col), sq, b[sq.row][sq.col]) :
     sq \in {p \in Squares : b[p.row][p.col] # null /\ p.row \in 3..4}, d \in {-2, -1, 1, 2}}

VARIABLE call

NoCall ==
  [op |-> "none", board |-> EmptyBoard, color |-> "null", from |-> NoPos, to |-> NoPos,
   last |-> NoMove, difficulty |-> "null", threw |-> FALSE, moves |-> <<>>, flag |-> FALSE,
   best |-> NoBest, path |-> "null", draws |-> 0, newBoard |-> EmptyBoard, value |-> 0,
   depth |-> 0, maximizing |-> FALSE]

fnvars == <<board, currentPlayer, lastMove, moveHistory, call>>

Idle ==
  /\ call.op = "none"
  /\ UNCHANGED <<currentPlayer, lastMove, moveHistory>>

CallGetValidMoves(from, last) ==
  IF getValidMovesThrows(board, from)
     THEN /\ call' = [NoCall EXCEPT !.op = "getValidMoves", !.board = board, !.from = from,
                                    !.last = last, !.threw = TRUE]
          /\ board' = board
     ELSE /\ call' = [NoCall EXCEPT !.op = "getValidMoves", !.board = board, !.from = from,
                                    !.last = last,
                                    !.moves = getValidMoves(board, from, last)]
          /\ board' = BoardAfterGetValidMoves(board, from, last)

CallIsInCheck(color) ==
  /\ call' = [NoCall EXCEPT !.op = "isInCheck", !.board = board, !.color = color,
                            !.flag = isInCheck(board, color)]
  /\ board' = board

CallIsCheckmate(color) ==
  /\ call' = [NoCall EXCEPT !.op = "isCheckmate", !.board = board, !.color = color,
                            !.flag = isCheckmate(board, color)]
  /\ board' = BoardAfterScan(board, color, 0)

CallIsStalemate(color) ==
  /\ call' = [NoCall EXCEPT !.op = "isStalemate", !.board = board, !.color = color,
                            !.flag = isStalemate(board, color)]
  /\ board' = BoardAfterScan(board, color, 0)

CallMakeMove(from, to) ==
  /\ call' = [NoCall EXCEPT !.op = "makeMove", !.board = board, !.from = from, !.to = to,
                            !.newBoard = makeMove(board, from, to)]
  /\ board' = BoardAfterRelocate(board, from, to)

CallGetBestMove(color, difficulty) ==
  /\ \E out \in getBestMove(board, color, difficulty) :
       call' = [NoCall EXCEPT !.op = "getBestMove", !.board = board, !.color = color,
                              !.difficulty = difficulty, !.best = out.move,
                              !.path = out.path, !.draws = out.draws]
  /\ board' = BoardAfterGetBestMove(board, color)

\* evaluateBoard reads the board and writes nothing.
CallEvaluateBoard(color) ==
  /\ call' = [NoCall EXCEPT !.op = "evaluateBoard", !.board = board, !.color = color,
                            !.value = evaluateBoard(board, color)]
  /\ board' = board

\* minimax as getBestMove calls it: depth below that of the difficulty, the
\* window from -Infinity to Infinity.
CallMinimax(depth, maximizing, color) ==
  /\ call' = [NoCall EXCEPT !.op = "minimax", !.board = board, !.color = color,
                            !.depth = depth, !.maximizing = maximizing,
                            !.value = minimax(board, depth, -Infinity, Infinity,
                                              maximizing, color)]
  /\ board' = BoardAfterMinimax(board, depth, maximizing, color)

InitCalls(boards) ==
  /\ board \in boards
  /\ currentPlayer = "white"
  /\ lastMove = NoMove
  /\ moveHistory = <<>>
  /\ call = NoCall

NextRules ==
  \/ Idle /\ \E from \in ProbePositions : \E last \in LastMoves(board) : CallGetValidMoves(from, last)
  \/ Idle /\ \E color \in PieceColor : CallIsInCheck(color)
  \/ Idle /\ \E color \in PieceColor : CallIsCheckmate(color)
  \/ Idle /\ \E color \in PieceColor : CallIsStalemate(color)
  \/ Idle /\ \E from \in Squares, to \in Squares : CallMakeMove(from, to)

NextSearch ==
  \/ NextRules
  \/ Idle /\ \E color \in PieceColor, difficulty \in Difficulty : CallGetBestMove(color, difficulty)
  \/ Idle /\ \E color \in PieceColor : CallEvaluateBoard(color)
  \/ Idle /\ \E depth \in 0..(DepthOf("hard") - 1), maximizing \in BOOLEAN, color \in PieceColor :
               CallMinimax(depth, maximizing, color)

InitRules == InitCalls(RulesBoards)

InitSearch == InitCalls(SearchBoards)

SpecRules == InitRules /\ [][NextRules]_fnvars

SpecSearch == InitSearch /\ [][NextSearch]_fnvars

\* ------------------------------------------------------------ the game
\* The board component in player mode: the two sides click moves in turn.

MaxPlies == 4

\* The squares the players click: those of the fool's mate, of the king's pawn
\* opening, of the pawns beside it and of the queen's check on h5.
ClickSquares ==
  {Pos(6, 5), Pos(5, 5), Pos(6, 6), Pos(4, 6), Pos(1, 4), Pos(3, 4), Pos(0, 3), Pos(4, 7),
   Pos(6, 4), Pos(4, 4), Pos(1, 3), Pos(3, 3), Pos(1, 5), Pos(3, 5),
   Pos(7, 3), Pos(3, 7), Pos(1, 6), Pos(2, 6), Pos(7, 4)}

Init ==
  /\ call = NoCall
  /\ board = INITIAL_BOARD
  /\ currentPlayer = "white"
  /\ lastMove = NoMove
  /\ moveHistory = <<>>

\* handleSquareClick twice: select a piece of the side to move, then click
\* one of its valid moves.  The board component asks for the valid moves
\* without the last move; a caller of the core may supply it (withLast).
PlayMove(from, withLast) ==
  /\ Len(moveHistory) < MaxPlies
  /\ board[from.row][from.col] # null
  /\ board[from.row][from.col].color = currentPlayer
  /\ LET validMoves == getValidMoves(board, from, IF withLast THEN lastMove ELSE NoMove)
     IN \E i \in 1..Len(validMoves) :
          /\ validMoves[i] \in ClickSquares
          /\ board' = makeMove(board, from, validMoves[i])
          /\ lastMove' = Move(from, validMoves[i], board[from.row][from.col])
          /\ moveHistory' = Append(moveHistory, Move(from, validMoves[i], board[from.row][from.col]))
  /\ currentPlayer' = Opponent(currentPlayer)
  /\ UNCHANGED call

Next == \E from \in ClickSquares, withLast \in BOOLEAN : PlayMove(from, withLast)

Spec == Init /\ [][Next]_fnvars

\* ------------------------------------------------------------ properties

Range(seq) == {seq[i] : i \in 1..Len(seq)}

At(b, pos) == b[pos.row][pos.col]

\* The squares of a board that hold a piece of the color.
PiecesOf(b, color) == {sq \in Squares : At(b, sq) # null /\ At(b, sq).color = color}

\* The legal moves of a color: every {from, to} with `to` among the valid
\* moves of the piece of that color on `from`.
LegalMoves(b, color) ==
  UNION {{[from |-> from, to |-> to] : to \in Range(getValidMoves(b, from, NoMove))} :
           from \in PiecesOf(b, color)}

\* C1: on every board of the game, whichever piece of the side to move is
\* asked for and whether or not the last move is supplied, relocating the piece
\* to a destination getValidMoves returns leaves the mover out of check.
SelfCheckExcluded ==
  \A from \in PiecesOf(board, currentPlayer) :
    \A last \in {NoMove, lastMove} :
      \A to \in Range(getValidMoves(board, from, last)) :
        ~isInCheck(makeMove(board, from, to), currentPlayer)

\* The side to move is in check, and a piece of it keeps some of its generated
\* destinations and loses others to the filter.
SelfCheckFiltered ==
  /\ isInCheck(board, currentPlayer)
  /\ \E from \in PiecesOf(board, currentPlayer) :
       /\ Len(getValidMoves(board, from, NoMove)) > 0
       /\ Len(getValidMoves(board, from, NoMove)) < Len(GeneratedMoves(board, from, NoMove))

\* C2: getValidMoves called with a position off the board or with the position
\* of an empty square returns the empty sequence and raises no error.
MalformedYieldsEmpty ==
  (/\ call.op = "getValidMoves"
   /\ (isValidPosition(call.from) => At(call.board, call.from) = null))
    => (~call.threw /\ call.moves = <<>>)

\* C3: getBestMove returns null exactly when the color has no legal move, which
\* is exactly when it is checkmated or stalemated; any move it returns, on the
\* random paths too, is a legal move of the color.
BestMoveNullIffNoLegalMove ==
  call.op = "getBestMove" =>
    LET legal == LegalMoves(call.board, call.color)
    IN /\ (call.best = NoBest) <=> (legal = {})
       /\ (legal = {}) <=> (isCheckmate(call.board, call.color)
                            \/ isStalemate(call.board, call.color))
       /\ call.best # NoBest => call.best \in legal

\* getBestMove returned null for a checkmated color.
BestMoveNullWhenMated ==
  /\ call.op = "getBestMove"
  /\ call.best = NoBest
  /\ isCheckmate(call.board, call.color)

SetMax(S) == CHOOSE x \in S : \A y \in S : y <= x

SetMin(S) == CHOOSE x \in S : \A y \in S : x <= y

\* The minimax value without pruning: every child is searched.
RECURSIVE FullMinimax(_, _, _, _)
FullMinimax(b, depth, maximizing, color) ==
  IF depth = 0 THEN evaluateBoard(b, color)
  ELSE LET currentColor == IF maximizing THEN color ELSE Opponent(color)
       IN IF isCheckmate(b, currentColor)
          THEN (IF maximizing THEN -MateScore ELSE MateScore)
          ELSE LET moves == getAllPossibleMoves(b, currentColor)
                   values == {FullMinimax(makeMove(b, moves[i].from, moves[i].to),
                                          depth - 1, ~maximizing, color) : i \in 1..Len(moves)}
               IN IF Len(moves) = 0 THEN 0
                  ELSE IF maximizing THEN SetMax(values) ELSE SetMin(values)

\* The first move in generation order whose minimax value is the greatest.
FullMinimaxChoice(b, color, depth) ==
  LET moves == getAllPossibleMoves(b, color)
      value == [i \in 1..Len(moves) |->
                  FullMinimax(makeMove(b, moves[i].from, moves[i].to), depth - 1, FALSE, color)]
      best == CHOOSE i \in 1..Len(moves) :
                /\ \A j \in 1..Len(moves) : value[j] <= value[i]
                /\ \A j \in 1..(i - 1) : value[j] < value[i]
  IN moves[best]

\* C4: at each depth the move the alpha-beta search of getBestMove selects is
\* the first move in generation order with the greatest unpruned minimax value.
AlphaBetaMatchesMinimax ==
  (call.op = "getBestMove" /\ call.path = "search")
    => call.best = FullMinimaxChoice(call.board, call.color, DepthOf(call.difficulty))

\* Below the root move `move` a maximizing node is cut off: one of its leaves,
\* not the last, scores at least the least value of the replies before it.
CutOffBelow(b, color, move) ==
  LET child == makeMove(b, move.from, move.to)
      replies == getAllPossibleMoves(child, Opponent(color))
      reply(j) == makeMove(child, replies[j].from, replies[j].to)
  IN /\ ~isCheckmate(child, Opponent(color))
     /\ \E j \in 2..Len(replies) :
          LET beta == SetMin({FullMinimax(reply(i), 1, TRUE, color) : i \in 1..(j - 1)})
              leaves == getAllPossibleMoves(reply(j), color)
          IN /\ ~isCheckmate(reply(j), color)
             /\ \E l \in 1..(Len(leaves) - 1) :
                  evaluateBoard(makeMove(reply(j), leaves[l].from, leaves[l].to), color) >= beta

\* A three-ply search that cut a node off and selected a move other than the
\* first one generated.
HardSearchPruned ==
  /\ call.op = "getBestMove"
  /\ call.path = "search"
  /\ call.difficulty = "hard"
  /\ call.best # getAllPossibleMoves(call.board, call.color)[1]
  /\ \E move \in Range(getAllPossibleMoves(call.board, call.color)) :
       CutOffBelow(call.board, call.color, move)

\* C5: at medium and hard difficulty getBestMove never calls Math.random() and
\* every call on the same board and color returns the move the first returned.
SearchDeterministic ==
  (call.op = "getBestMove" /\ call.difficulty \in {"medium", "hard"})
    => /\ call.draws = 0
       /\ call.path \in {"search", "null"}
       /\ \A again \in getBestMove(call.board, call.color, call.difficulty) :
            again.move = call.best /\ again.draws = 0

\* A medium search returned a move on a board where the color has several.
MediumSearchReturned ==
  /\ call.op = "getBestMove"
  /\ call.difficulty = "medium"
  /\ call.best # NoBest
  /\ Cardinality(LegalMoves(call.board, call.color)) > 1

\* C6: isCheckmate is true iff the color is in check and no piece of it has a
\* legal move, isStalemate iff it is not in check and no piece of it has a
\* legal move, and they are never true together.
CheckmateStalematePartition ==
  /\ call.op = "isCheckmate" =>
       (call.flag <=> (isInCheck(call.board, call.color)
                       /\ LegalMoves(call.board, call.color) = {}))
  /\ call.op = "isStalemate" =>
       (call.flag <=> (~isInCheck(call.board, call.color)
                       /\ LegalMoves(call.board, call.color) = {}))
  /\ \A color \in PieceColor : ~(isCheckmate(board, color) /\ isStalemate(board, color))

\* isCheckmate returned true.
CheckmateReported == call.op = "isCheckmate" /\ call.flag

WhitePawn == Piece("pawn", "white")

BlackPawn == Piece("pawn", "black")

\* f2-f3, e7-e5, g2-g4, Qd8-h4.
FoolsMate ==
  << Move(Pos(6, 5), Pos(5, 5), WhitePawn), Move(Pos(1, 4), Pos(3, 4), BlackPawn),
     Move(Pos(6, 6), Pos(4, 6), WhitePawn), Move(Pos(0, 3), Pos(4, 7), Piece("queen", "black")) >>

\* C7: along the fool's mate each move is a valid move of its piece when it is
\* played, and on the final board white is checkmated and not stalemated.
FoolsMateIsCheckmate ==
  /\ \A k \in 0..3 :
       moveHistory = SubSeq(FoolsMate, 1, k) =>
         /\ At(board, FoolsMate[k + 1].from) = FoolsMate[k + 1].piece
         /\ FoolsMate[k + 1].piece.color = currentPlayer
         /\ InSeq(FoolsMate[k + 1].to, getValidMoves(board, FoolsMate[k + 1].from, NoMove))
  /\ moveHistory = FoolsMate =>
       /\ isCheckmate(board, "white")
       /\ ~isStalemate(board, "white")

\* The fool's mate has been played.
FoolsMatePlayed == moveHistory = FoolsMate

\* C8: on the initial board getValidMoves returns the single and the double
\* advance for each of the 16 pawns, two destinations for each of the 4 knights
\* and none for every rook, bishop, queen and king.
InitialMobility ==
  (/\ call.op = "getValidMoves"
   /\ call.board = INITIAL_BOARD
   /\ call.last = NoMove
   /\ isValidPosition(call.from)
   /\ At(INITIAL_BOARD, call.from) # null)
    => LET piece == At(INITIAL_BOARD, call.from)
           direction == IF piece.color = "white" THEN -1 ELSE 1
       IN CASE piece.type = "pawn" ->
                 call.moves = << Pos(call.from.row + direction, call.from.col),
                                 Pos(call.from.row + 2 * direction, call.from.col) >>
            [] piece.type = "knight" ->
                 /\ Len(call.moves) = 2
                 /\ Cardinality(Range(call.moves)) = 2
            [] OTHER -> call.moves = <<>>

\* getValidMoves returned both advances of the black pawn a7.
InitialPawnAsked ==
  /\ call.op = "getValidMoves"
  /\ call.board = INITIAL_BOARD
  /\ call.from = Pos(1, 0)
  /\ call.moves = <<Pos(2, 0), Pos(3, 0)>>

\* C9: when an operation returns, the board it was given holds what it held
\* when the operation was called, and the rows of the board makeMove returns
\* are none of the rows of the board it was given.
InputBoardUnchanged ==
  /\ call.op # "none" => board = call.board
  /\ call.op = "makeMove" =>
       \A row \in Rows : Relocate(call.board, call.from, call.to).ref[row] \notin {InputRef[r] : r \in Rows}

\* A search has run: a move was made from the board for every legal move.
SearchHasRun ==
  /\ call.op = "getBestMove"
  /\ call.path = "search"
  /\ LegalMoves(call.board, call.color) # {}

\* C10: for from # to, makeMove returns the board with `from` empty, `to`
\* holding the piece that stood on `from` and every other square unchanged; for
\* a valid move of a piece these two squares are exactly those that differ.
MakeMoveRelocatesOnly ==
  (call.op = "makeMove" /\ call.from # call.to) =>
    /\ \A sq \in Squares :
         At(call.newBoard, sq) = IF sq = call.to THEN At(call.board, call.from)
                                 ELSE IF sq = call.from THEN null
                                 ELSE At(call.board, sq)
    /\ InSeq(call.to, getValidMoves(call.board, call.from, NoMove)) =>
         {sq \in Squares : At(call.newBoard, sq) # At(call.board, sq)} = {call.from, call.to}

\* makeMove has put a white pawn on the last rank.
PawnOnLastRank ==
  /\ call.op = "makeMove"
  /\ At(call.board, call.from) = WhitePawn
  /\ call.to.row = 0
  /\ call.from.row = 1
  /\ At(call.newBoard, call.to) = WhitePawn

\* C11: every position getValidMoves returns, for a source on or off the board
\* and with or without a last move, has its row and its column in 0..7.
DestinationsOnBoard ==
  (call.op = "getValidMoves" /\ ~call.threw) =>
    \A i \in 1..Len(call.moves) :
      /\ 0 <= call.moves[i].row /\ call.moves[i].row < 8
      /\ 0 <= call.moves[i].col /\ call.moves[i].col < 8

\* getValidMoves returned the double advance of a pawn on its starting rank,
\* on a board with a pawn on its last rank.
DoubleAdvanceOffered ==
  /\ call.op = "getValidMoves"
  /\ call.board = LastRankBoard
  /\ isValidPosition(call.from)
  /\ At(call.board, call.from).type = "pawn"
  /\ \E i \in 1..Len(call.moves) :
       call.moves[i].row - call.from.row \in {-2, 2}
  /\ getValidMoves(call.board, Pos(0, 0), NoMove) = <<>>
  /\ getValidMoves(call.board, Pos(7, 7), NoMove) = <<>>

\* The ranks a pawn on `row` has advanced from its starting rank: row 6 for
\* white moving toward row 0, row 1 for black moving toward row 7.
RanksAdvanced(color, row) == IF color = "white" THEN 6 - row ELSE row - 1

\* The positional bonus with the pawn's being 10 times the ranks advanced.
AdvancementBonus(piece, row, col) ==
  IF piece.type = "pawn" THEN 10 * RanksAdvanced(piece.color, row)
  ELSE getPositionBonus(piece, row, col)

\* The sum over the occupied squares i..63 of material value plus that bonus,
\* added for the pieces of `color` and subtracted for the others.
RECURSIVE AdvancementSum(_, _, _)
AdvancementSum(b, color, i) ==
  IF i > 63 THEN 0
  ELSE LET piece == b[i \div 8][i % 8]
           total == PIECE_VALUES(piece.type) + AdvancementBonus(piece, i \div 8, i % 8)
       IN (IF piece = null THEN 0 ELSE IF piece.color = color THEN total ELSE -total)
          + AdvancementSum(b, color, i + 1)

\* C12: evaluateBoard returns the sum over the occupied squares of material
\* value plus positional bonus, added for the perspective's pieces and
\* subtracted for the others, a pawn's bonus being 10 times the ranks it has
\* advanced, 0 on its starting rank, for white and black alike.
EvaluationCountsRanksAdvanced ==
  call.op = "evaluateBoard" => call.value = AdvancementSum(call.board, call.color, 0)

Kingless(b, color) == ~\E sq \in Squares : At(b, sq) = Piece("king", color)

\* C13: on a board without a king of the color, isInCheck and isCheckmate
\* return false for that color, on the boards asked and on every board
\* makeMove returns with a king captured.
KinglessNeverInCheck ==
  /\ (call.op \in {"isInCheck", "isCheckmate"} /\ Kingless(call.board, call.color))
       => ~call.flag
  /\ call.op = "makeMove" =>
       \A color \in PieceColor :
         Kingless(call.newBoard, color) =>
           ~isInCheck(call.newBoard, color) /\ ~isCheckmate(call.newBoard, color)

\* isCheckmate returned false for a color that has pieces and no king.
KinglessCheckmateAsked ==
  /\ call.op = "isCheckmate"
  /\ Kingless(call.board, call.color)
  /\ PiecesOf(call.board, call.color) # {}
  /\ ~call.flag

\* C14: minimax at depth 0 returns evaluateBoard of the board for the root
\* color, checkmated or not; at depth >= 1 it returns -999999 (maximizing) or
\* 999999 (minimizing) when the side to move is in check without a legal move,
\* and 0 when that side has no legal move and is not in check.
MinimaxTerminalValues ==
  call.op = "minimax" =>
    LET side == IF call.maximizing THEN call.color ELSE Opponent(call.color)
        stuck == LegalMoves(call.board, side) = {}
        mated == stuck /\ isInCheck(call.board, side)
    IN /\ call.depth = 0 => call.value = evaluateBoard(call.board, call.color)
       /\ (call.depth >= 1 /\ mated) =>
            call.value = IF call.maximizing THEN -999999 ELSE 999999
       /\ (call.depth >= 1 /\ stuck /\ ~mated) => call.value = 0

\* minimax at depth 0 on a board whose side to move is checkmated returned the
\* evaluation, not the score of a mate.
MinimaxLeafOnMatedBoard ==
  /\ call.op = "minimax"
  /\ call.depth = 0
  /\ isCheckmate(call.board, IF call.maximizing THEN call.color ELSE Opponent(call.color))
  /\ call.value = evaluateBoard(call.board, call.color)
  /\ call.value \notin {-999999, 999999}

\* The squares diagonally forward of a pawn of the color on `from` that are on
\* the board and empty.
EmptyDiagonals(b, from, color) ==
  {sq \in Squares : /\ sq.row = from.row + (IF color = "white" THEN -1 ELSE 1)
                    /\ sq.col - from.col \in {-1, 1}
                    /\ At(b, sq) = null}

\* The last move is supplied, moved a pawn two rows and ended beside `from`
\* in the column of `sq`.
DoubleAdvanceBeside(last, from, sq) ==
  /\ last # NoMove
  /\ last.piece.type = "pawn"
  /\ last.from.row - last.to.row \in {-2, 2}
  /\ last.to.row = from.row
  /\ last.to.col = sq.col

\* C15: getValidMoves offers a pawn an empty diagonal-forward square exactly
\* when the last move is supplied, moved a pawn two rows, ended on the row of
\* the pawn and in the column of that square, and the relocation leaves the
\* mover out of check; the move lists isCheckmate, isStalemate and the search
\* scan, made without a last move, hold no pawn move onto an empty diagonal.
EnPassantOfferedExactly ==
  /\ (/\ call.op = "getValidMoves"
      /\ isValidPosition(call.from)
      /\ At(call.board, call.from).type = "pawn")
       => \A sq \in EmptyDiagonals(call.board, call.from, At(call.board, call.from).color) :
            InSeq(sq, call.moves) <=>
              /\ DoubleAdvanceBeside(call.last, call.from, sq)
              /\ ~isInCheck(makeMove(call.board, call.from, sq),
                            At(call.board, call.from).color)
  /\ call.op \in {"isCheckmate", "isStalemate"} =>
       \A i \in 1..Len(getAllPossibleMoves(call.board, call.color)) :
         LET move == getAllPossibleMoves(call.board, call.color)[i]
         IN At(call.board, move.from).type = "pawn" =>
              move.to \notin EmptyDiagonals(call.board, move.from, call.color)

\* The white pawn e5 was offered d6 after d7-d5; the same pawn pinned on its
\* file is not.
EnPassantOffered ==
  /\ call.op = "getValidMoves"
  /\ call.board = EnPassantBoard
  /\ call.from = Pos(3, 4)
  /\ call.last = Move(Pos(1, 3), Pos(3, 3), BlackPawn)
  /\ InSeq(Pos(2, 3), call.moves)
  /\ ~InSeq(Pos(2, 3), getValidMoves(EnPassantPinnedBoard, Pos(3, 4), call.last))
  /\ InSeq(Pos(2, 3), GeneratedMoves(EnPassantPinnedBoard, Pos(3, 4), call.last))

Kings(b, color) == {sq \in Squares : At(b, sq) = Piece("king", color)}

\* C16: on every board of the game each color has exactly one king, and no
\* destination generated for a piece of the side to move, with or without the
\* last move, is a square a king stands on: the moves getValidMoves keeps of
\* them capture no king.
OneKingEach ==
  /\ \A color \in PieceColor : Cardinality(Kings(board, color)) = 1
  /\ \A from \in PiecesOf(board, currentPlayer) :
       \A last \in {NoMove, lastMove} :
         \A to \in Range(GeneratedMoves(board, from, last)) :
           At(board, to).type # "king"

\* The white queen has checked from h5 and black has answered: the queen still
\* bears on the king's diagonal and both kings stand.
CheckAnswered ==
  /\ Len(moveHistory) = 4
  /\ moveHistory[2] = Move(Pos(1, 5), Pos(3, 5), BlackPawn)
  /\ moveHistory[3] = Move(Pos(7, 3), Pos(3, 7), Piece("queen", "white"))
  /\ At(board, Pos(3, 7)) = Piece("queen", "white")
  /\ At(board, Pos(0, 4)) = Piece("king", "black")
  /\ ~isInCheck(board, "black")

====
